---- MODULE Spec2Model ----
(***************************************************************************)
(* Model of src/app.py: the rolling knock-in backtest                      *)
(* run_detailed_backtest, the data fetch get_stock_data_10y and the main   *)
(* loop over the entered tickers.                                          *)
(*                                                                         *)
(* Numbers.  Prices and percentages are integers.  A price level           *)
(* Start_Price * (pct / 100) is kept in hundredths of a price unit         *)
(* (Start_Price * pct), and a closing price is compared with it after      *)
(* scaling by Scale.  A NaN / NaT cell is the empty sequence NaN and a     *)
(* present value v is <<v>>.  A quotient a / b is the pair                  *)
(* [num |-> a, den |-> b].                                                 *)
(***************************************************************************)
EXTENDS Integers, Sequences, FiniteSets

VARIABLES
    pc,               \* position in the script / in run_detailed_backtest
    caller,           \* "direct": run_detailed_backtest called on its own; "main": from the loop
    df,               \* the price frame: sequence of [Date, Close]
    ki_pct,           \* sidebar KI percentage
    strike_pct,       \* sidebar Strike percentage
    trading_days,     \* int(months * 21)
    bt,               \* the backtest table: sequence of rows, each with its index label
    loss_indices,     \* index labels of the LOSS rows
    loop_pos,         \* position of the for loop in loss_indices (1-based)
    recovery_counts,  \* list of days_needed of the recovered rows
    stuck_count,      \* number of LOSS rows never recovered
    ret,              \* return value of run_detailed_backtest
    ticker_list,      \* the parsed ticker list
    ticker_pos,       \* position of the main loop in ticker_list (1-based)
    download,         \* what yf.download produced for the current ticker
    err,              \* err returned by get_stock_data_10y
    df_none,          \* get_stock_data_10y returned None for the frame
    period_months,    \* sidebar holding period in months
    current_price,    \* float(df['Close'].iloc[-1])
    m2,               \* the metric shown for the average recovery days
    outcomes          \* what the page showed for each ticker handled so far

vars == <<pc, caller, df, ki_pct, strike_pct, trading_days, bt, loss_indices,
          loop_pos, recovery_counts, stuck_count, ret, ticker_list, ticker_pos,
          download, err, df_none, period_months, current_price, m2, outcomes>>

btVars == <<bt, loss_indices, loop_pos, recovery_counts, stuck_count, ret>>
mainVars == <<ticker_list, ticker_pos, download, err, df_none, period_months,
              current_price, m2, outcomes>>
inputVars == <<caller, df, ki_pct, strike_pct, trading_days>>

----------------------------------------------------------------------------
(* Bounds of the model *)

MaxLen == 5        \* longest price series of a direct call
MaxH == 2          \* largest holding period of a direct call

(* Input sets *)
PriceSet == {1, 2, 3}          \* closing prices of a direct call
GapSet == {1, 3}               \* calendar days between consecutive trading days
ThresholdSet == {<<65, 100>>, <<90, 80>>}   \* values of <<ki_pct, strike_pct>>

Scale == 100

NaN == <<>>
Some(v) == <<v>>
IsNaN(x) == x = NaN
Val(x) == x[1]

\* The Result and Recovery_Status texts of lines 101-102 and 135, in ASCII
LOSS == "jie gupiao (sun)"
TOUCHED_SAFE == "chuji KI dan zhanghui (an)"
UNTOUCHED_SAFE == "wei chuji KI (an)"
UNKNOWN == "weizhi"
STUCK == "shangwei huiben"

NoStats == [safety_prob |-> [num |-> 0, den |-> 1],
            positive_prob |-> [num |-> 0, den |-> 1],
            total_samples |-> 0, loss_count |-> 0,
            avg_recovery_days |-> [num |-> 0, den |-> 1],
            stuck_count |-> 0]

RetNone == [none |-> TRUE, stats |-> NoStats]

----------------------------------------------------------------------------
(* Sequence helpers *)

RECURSIVE SelectIdx(_, _, _)
\* the indices i in lo..hi with P[i], ascending
SelectIdx(P, lo, hi) ==
    IF lo > hi THEN <<>>
    ELSE (IF P[lo] THEN <<lo>> ELSE <<>>) \o SelectIdx(P, lo + 1, hi)

RECURSIVE SumSeq(_)
SumSeq(s) == IF s = <<>> THEN 0 ELSE s[1] + SumSeq(Tail(s))

MinOfSet(S) == CHOOSE m \in S : \A x \in S : m <= x

----------------------------------------------------------------------------
(* run_detailed_backtest, lines 68-85: the windows *)

\* Shift losing the last row: the bound taken exclusive
ShiftDropsLast(col, k) ==
    [i \in 1..Len(col) |->
        IF i + k >= 1 /\ i + k < Len(col) THEN Some(col[i + k]) ELSE NaN]

\* Series.shift(-k): row i takes the value of row i + k, NaN where there is none
Shift(col, k) ==
    [i \in 1..Len(col) |->
        IF i + k >= 1 /\ i + k <= Len(col) THEN Some(col[i + k]) ELSE NaN]

\* FixedForwardWindowIndexer(window_size).get_window_bounds: start = i,
\* end = i + window_size clipped to the length; the window is start..end-1
WindowBounds(n, window_size, i) ==
    LET e0 == i + window_size
        e == IF window_size # 0
             THEN (IF e0 > n + 1 THEN n + 1 ELSE IF e0 < 1 THEN 1 ELSE e0)
             ELSE e0
    IN  {j \in 1..n : i <= j /\ j < e}

\* rolling(window=indexer, min_periods=1).min()
RollingMin(col, window_size) ==
    [i \in 1..Len(col) |->
        LET w == WindowBounds(Len(col), window_size, i)
        IN  IF w = {} THEN NaN ELSE Some(MinOfSet({col[j] : j \in w}))]

\* lines 71-83: the table after dropna(), each row with its index label
Windows(frame, h) ==
    LET n == Len(frame)
        dates == [i \in 1..n |-> frame[i].Date]
        close == [i \in 1..n |-> frame[i].Close]
        End_Date == Shift(dates, h)
        Final_Price == Shift(close, h)
        Min_Price_During == RollingMin(close, h)
        keep == [i \in 1..n |-> ~IsNaN(End_Date[i]) /\ ~IsNaN(Final_Price[i])
                                 /\ ~IsNaN(Min_Price_During[i])]
        kept == SelectIdx(keep, 1, n)
    IN  [k \in 1..Len(kept) |->
            [index |-> kept[k],
             Start_Date |-> dates[kept[k]],
             Start_Price |-> close[kept[k]],
             End_Date |-> Val(End_Date[kept[k]]),
             Final_Price |-> Val(Final_Price[kept[k]]),
             Min_Price_During |-> Val(Min_Price_During[kept[k]])]]

----------------------------------------------------------------------------
(* run_detailed_backtest, lines 87-102: levels, flags and Result *)

\* line 88, in hundredths of a price unit
KI_Level(Start_Price, ki) == Start_Price * ki

\* line 89, in hundredths of a price unit
Strike_Level(Start_Price, strike) == Start_Price * strike

\* line 92
Touched_KI(Min_Price_During, level) == Min_Price_During * Scale < level

\* Below_Strike with <= for <
Below_Strike_AtOrBelow(Final_Price, level) == Final_Price * Scale <= level

\* line 93
Below_Strike(Final_Price, level) == Final_Price * Scale < level

\* lines 96-100: the three condition columns of one row
Conditions(touched, below) ==
    << touched = TRUE /\ below = TRUE,
       touched = TRUE /\ below = FALSE,
       touched = FALSE >>

\* line 101
Choices == << LOSS, TOUCHED_SAFE, UNTOUCHED_SAFE >>

\* np.select(conditions, choices, default): the choice of the first condition
\* that holds, the default when none does
NpSelect(conds, choices, default) ==
    IF \E c \in 1..Len(conds) : conds[c]
    THEN choices[CHOOSE c \in 1..Len(conds) :
                    conds[c] /\ \A d \in 1..(c - 1) : ~conds[d]]
    ELSE default

\* lines 88-102 on one row
ClassifyRow(row, ki, strike) ==
    LET kl == KI_Level(row.Start_Price, ki)
        sl == Strike_Level(row.Start_Price, strike)
        t == Touched_KI(row.Min_Price_During, kl)
        b == Below_Strike(row.Final_Price, sl)
    IN  [index |-> row.index,
         Start_Date |-> row.Start_Date,
         Start_Price |-> row.Start_Price,
         End_Date |-> row.End_Date,
         Final_Price |-> row.Final_Price,
         Min_Price_During |-> row.Min_Price_During,
         KI_Level |-> kl,
         Strike_Level |-> sl,
         Touched_KI |-> t,
         Below_Strike |-> b,
         Result |-> NpSelect(Conditions(t, b), Choices, UNKNOWN)]

----------------------------------------------------------------------------
(* run_detailed_backtest, lines 104-136: the recovery scan *)

\* Recovery_Status: '-' (line 111), "<days> tian" (line 131), STUCK (line 135)
StatusDash == [text |-> "-", days |-> 0]
StatusDays(d) == [text |-> "days", days |-> d]
StatusStuck == [text |-> STUCK, days |-> 0]

\* lines 110-111 on one row
WithRecoveryColumns(row) ==
    [index |-> row.index,
     Start_Date |-> row.Start_Date,
     Start_Price |-> row.Start_Price,
     End_Date |-> row.End_Date,
     Final_Price |-> row.Final_Price,
     Min_Price_During |-> row.Min_Price_During,
     KI_Level |-> row.KI_Level,
     Strike_Level |-> row.Strike_Level,
     Touched_KI |-> row.Touched_KI,
     Below_Strike |-> row.Below_Strike,
     Result |-> row.Result,
     Recovery_Days |-> NaN,
     Recovery_Status |-> StatusDash]

\* line 113: bt[bt['Result'] == LOSS].index
LossIndices(table) ==
    LET isLoss == [k \in 1..Len(table) |-> table[k].Result = LOSS]
        pos == SelectIdx(isLoss, 1, Len(table))
    IN  [k \in 1..Len(pos) |-> table[pos[k]].index]

\* bt.loc[idx]: the position of the row labelled idx
Loc(table, idx) == CHOOSE k \in 1..Len(table) : table[k].index = idx

\* FutureData with > for >= on the close
FutureDataStrictlyAbove(frame, end_date, target_price) ==
    SelectSeq(frame, LAMBDA r : r.Date > end_date /\ r.Close * Scale > target_price)

\* line 125: the rows of df after end_date that close at or above target_price,
\* in df's row order
FutureData(frame, end_date, target_price) ==
    SelectSeq(frame, LAMBDA r : r.Date > end_date /\ r.Close * Scale >= target_price)

\* RecoverDate taking iloc[-1] for iloc[0]
RecoverDateLast(future_data) == future_data[Len(future_data)].Date

\* line 128: future_data.iloc[0]['Date']
RecoverDate(future_data) == future_data[1].Date

\* DaysNeeded not counting the recovery day itself
DaysNeededExclusive(recover_date, end_date) == recover_date - end_date - 1

\* line 129: (recover_date - end_date).days
DaysNeeded(recover_date, end_date) == recover_date - end_date

----------------------------------------------------------------------------
(* run_detailed_backtest, lines 138-160: the statistics *)

\* SafeCount leaving out the windows that touched KI and closed above Strike
SafeCountUntouchedOnly(table) ==
    Cardinality({k \in 1..Len(table) : table[k].Result = UNTOUCHED_SAFE})

\* line 140
SafeCount(table) == Cardinality({k \in 1..Len(table) : table[k].Result # LOSS})

\* line 143
PositiveReturnCount(table) ==
    Cardinality({k \in 1..Len(table) : table[k].Final_Price > table[k].Start_Price})

\* lines 141, 144: (count / total_samples) * 100
Percent(count, total) == [num |-> count * 100, den |-> total]

\* line 147: np.mean(recovery_counts) if recovery_counts else 0
AvgRecovery(counts) ==
    IF counts # <<>> THEN [num |-> SumSeq(counts), den |-> Len(counts)]
    ELSE [num |-> 0, den |-> 1]

\* lines 139-158
Stats(table, losses, counts, stuck) ==
    [safety_prob |-> Percent(SafeCount(table), Len(table)),
     positive_prob |-> Percent(PositiveReturnCount(table), Len(table)),
     total_samples |-> Len(table),
     loss_count |-> Len(losses),
     avg_recovery_days |-> AvgRecovery(counts),
     stuck_count |-> stuck]

----------------------------------------------------------------------------
(* run_detailed_backtest as steps *)

\* lines 68-85
BuildWindows ==
    /\ pc = "start"
    /\ bt' = Windows(df, trading_days)
    /\ IF bt' = <<>>
       THEN /\ ret' = RetNone
            /\ pc' = "returned"
       ELSE /\ ret' = ret
            /\ pc' = "classify"
    /\ UNCHANGED <<loss_indices, loop_pos, recovery_counts, stuck_count>>
    /\ UNCHANGED <<inputVars, mainVars>>

\* lines 87-102
Classify ==
    /\ pc = "classify"
    /\ bt' = [k \in 1..Len(bt) |-> ClassifyRow(bt[k], ki_pct, strike_pct)]
    /\ pc' = "recovery"
    /\ UNCHANGED <<loss_indices, loop_pos, recovery_counts, stuck_count, ret>>
    /\ UNCHANGED <<inputVars, mainVars>>

\* lines 104-116
InitRecovery ==
    /\ pc = "recovery"
    /\ bt' = [k \in 1..Len(bt) |-> WithRecoveryColumns(bt[k])]
    /\ loss_indices' = LossIndices(bt)
    /\ recovery_counts' = <<>>
    /\ stuck_count' = 0
    /\ loop_pos' = 1
    /\ pc' = "loop"
    /\ UNCHANGED ret
    /\ UNCHANGED <<inputVars, mainVars>>

\* lines 118-132: one iteration of the loop, a recovery date exists
RecoverFound ==
    /\ pc = "loop"
    /\ loop_pos <= Len(loss_indices)
    /\ LET k == Loc(bt, loss_indices[loop_pos])
           target_price == bt[k].Strike_Level
           end_date == bt[k].End_Date
           future_data == FutureData(df, end_date, target_price)
       IN  /\ future_data # <<>>
           /\ LET days_needed == DaysNeeded(RecoverDate(future_data), end_date)
              IN  /\ bt' = [bt EXCEPT ![k].Recovery_Days = Some(days_needed),
                                      ![k].Recovery_Status = StatusDays(days_needed)]
                  /\ recovery_counts' = Append(recovery_counts, days_needed)
    /\ loop_pos' = loop_pos + 1
    /\ UNCHANGED <<loss_indices, stuck_count, ret, pc>>
    /\ UNCHANGED <<inputVars, mainVars>>

\* lines 118-126, 133-136: one iteration of the loop, no recovery date
RecoverStuck ==
    /\ pc = "loop"
    /\ loop_pos <= Len(loss_indices)
    /\ LET k == Loc(bt, loss_indices[loop_pos])
           target_price == bt[k].Strike_Level
           end_date == bt[k].End_Date
           future_data == FutureData(df, end_date, target_price)
       IN  /\ future_data = <<>>
           /\ bt' = [bt EXCEPT ![k].Recovery_Status = StatusStuck]
    /\ stuck_count' = stuck_count + 1
    /\ loop_pos' = loop_pos + 1
    /\ UNCHANGED <<loss_indices, recovery_counts, ret, pc>>
    /\ UNCHANGED <<inputVars, mainVars>>

\* lines 138-160
Summarize ==
    /\ pc = "loop"
    /\ loop_pos > Len(loss_indices)
    /\ ret' = [none |-> FALSE,
               stats |-> Stats(bt, loss_indices, recovery_counts, stuck_count)]
    /\ pc' = "returned"
    /\ UNCHANGED <<bt, loss_indices, loop_pos, recovery_counts, stuck_count>>
    /\ UNCHANGED <<inputVars, mainVars>>

NextBacktest ==
    \/ BuildWindows
    \/ Classify
    \/ InitRecovery
    \/ RecoverFound
    \/ RecoverStuck
    \/ Summarize

----------------------------------------------------------------------------
(* A direct call of run_detailed_backtest on a well-formed frame: dates      *)
(* strictly increasing, closes positive (line 53 leaves no NaN close)       *)

RECURSIVE Frames(_, _, _)
\* the frames of n rows with closes in prices and date steps in gaps
Frames(n, prices, gaps) ==
    IF n = 0 THEN {<<>>}
    ELSE {Append(f, [Date |-> (IF f = <<>> THEN 1 ELSE f[Len(f)].Date + g),
                     Close |-> c]) :
            f \in Frames(n - 1, prices, gaps), g \in gaps, c \in prices}

ValidFrames == UNION {Frames(n, PriceSet, GapSet) : n \in 0..MaxLen}

NoDownload == [kind |-> "none", msg |-> "", rows |-> <<>>]
NoMetric == [text |-> "", days |-> 0]

InitBacktestVars ==
    /\ bt = <<>>
    /\ loss_indices = <<>>
    /\ loop_pos = 0
    /\ recovery_counts = <<>>
    /\ stuck_count = 0
    /\ ret = RetNone

InitMainIdle ==
    /\ ticker_list = <<>>
    /\ ticker_pos = 0
    /\ download = NoDownload
    /\ err = NaN
    /\ df_none = FALSE
    /\ period_months = 0
    /\ current_price = NaN
    /\ m2 = NoMetric
    /\ outcomes = <<>>

Init ==
    /\ pc = "start"
    /\ caller = "direct"
    /\ df \in ValidFrames
    /\ \E th \in ThresholdSet : ki_pct = th[1] /\ strike_pct = th[2]
    /\ trading_days \in 1..MaxH
    /\ InitBacktestVars
    /\ InitMainIdle

Next == NextBacktest

Spec == Init /\ [][Next]_vars

----------------------------------------------------------------------------
(* get_stock_data_10y, lines 38-62 *)

\* the messages of lines 42 and 49 and of the KeyError of line 51, in ASCII
MsgNotFound == "zhaobudao ticker"
MsgNoClose == "wu shoupanjia ziliao"
MsgNoDate == "'Date'"

\* lines 52-53: rows whose Close is NaN after to_numeric are dropped
DropNaClose(rows) ==
    LET present == SelectSeq(rows, LAMBDA r : ~IsNaN(r.Close))
    IN  [k \in 1..Len(present) |->
            [Date |-> present[k].Date, Close |-> Val(present[k].Close)]]

\* what get_stock_data_10y returns for what yf.download produced
GetStockData(d) ==
    CASE d.kind = "raise"    -> [df |-> <<>>, df_none |-> TRUE, err |-> Some(d.msg)]
      [] d.kind = "empty"    -> [df |-> <<>>, df_none |-> TRUE, err |-> Some(MsgNotFound)]
      [] d.kind = "no_close" -> [df |-> <<>>, df_none |-> TRUE, err |-> Some(MsgNoClose)]
      [] d.kind = "no_date"  -> [df |-> <<>>, df_none |-> TRUE, err |-> Some(MsgNoDate)]
      [] OTHER               -> [df |-> DropNaClose(d.rows), df_none |-> FALSE, err |-> NaN]

\* "if err:" of line 199: None and the empty string are falsy
Truthy(e) == ~IsNaN(e) /\ Val(e) # ""

----------------------------------------------------------------------------
(* The main loop, lines 187-282 *)

DaysPerMonth == 21

\* line 68: int(months * 21)
TradingDays(months) == months * DaysPerMonth

\* f"{avg_days:.0f}": the quotient rounded to the nearest integer, ties to even
RoundHalfEven(q) ==
    LET fl == q.num \div q.den
        r == q.num % q.den
    IN  IF 2 * r < q.den THEN fl
        ELSE IF 2 * r > q.den THEN fl + 1
        ELSE IF fl % 2 = 0 THEN fl ELSE fl + 1

\* lines 235-239: the text of the second metric
MetricM2(stats) ==
    IF stats.loss_count > 0
    THEN [text |-> "days", days |-> RoundHalfEven(stats.avg_recovery_days)]
    ELSE [text |-> "no loss record", days |-> 0]

\* AfterContinue as "break": the loop is left
AfterContinueBreak(pos, n) == n + 1

\* "continue" of lines 201, 210, 216 and the end of the loop body: the for loop
\* goes on with the next ticker
AfterContinue(pos, n) == pos + 1

Shown(kind) == Append(outcomes, [ticker |-> ticker_list[ticker_pos], kind |-> kind])

\* lines 187-192
Run ==
    /\ pc = "run"
    /\ IF ticker_list = <<>>
       THEN /\ pc' = "done"
            /\ ticker_pos' = ticker_pos
       ELSE /\ pc' = "for"
            /\ ticker_pos' = 1
    /\ UNCHANGED <<download, err, df_none, period_months, current_price, m2,
                   outcomes, ticker_list>>
    /\ UNCHANGED <<inputVars, btVars>>

\* line 193: the next ticker, or the end of the list
ForTicker ==
    /\ pc = "for"
    /\ pc' = IF ticker_pos <= Len(ticker_list) THEN "fetch" ELSE "done"
    /\ UNCHANGED <<mainVars, inputVars, btVars>>

----------------------------------------------------------------------------
(* What yf.download can produce for a ticker *)

MaxTickers == 2     \* longest ticker list
MaxExtraRows == 2   \* rows a downloaded frame has beyond DaysPerMonth
MonthsSet == {1}    \* values of period_months

\* a frame of n rows on consecutive days: the first close is 2, the closes of
\* rows 2..b are 1, the later ones are 2 again
ShapeFrame(n, b) ==
    [i \in 1..n |-> [Date |-> i, Close |-> Some(IF i >= 2 /\ i <= b THEN 1 ELSE 2)]]

NaNRow == [Date |-> 0, Close |-> NaN]

RawFrames ==
    LET lens == (DaysPerMonth - 1)..(DaysPerMonth + MaxExtraRows)
        shaped == {ShapeFrame(n, b) : n \in lens, b \in (DaysPerMonth - 1)..(DaysPerMonth + MaxExtraRows)}
    IN  shaped \cup {<<NaNRow>> \o ShapeFrame(DaysPerMonth, 1)} \cup {<<NaNRow>>}

Downloads ==
    {[kind |-> "raise", msg |-> m, rows |-> <<>>] : m \in {"network error", ""}}
    \cup {[kind |-> k, msg |-> "", rows |-> <<>>] : k \in {"empty", "no_close", "no_date"}}
    \cup {[kind |-> "frame", msg |-> "", rows |-> f] : f \in RawFrames}

\* lines 194-197
Fetch ==
    /\ pc = "fetch"
    /\ \E d \in Downloads :
         /\ download' = d
         /\ df' = GetStockData(d).df
         /\ df_none' = GetStockData(d).df_none
         /\ err' = GetStockData(d).err
    /\ pc' = "check_err"
    /\ UNCHANGED <<ticker_list, ticker_pos, period_months, current_price, m2, outcomes>>
    /\ UNCHANGED <<caller, ki_pct, strike_pct, trading_days, btVars>>

\* lines 199-201
CheckErr ==
    /\ pc = "check_err"
    /\ IF Truthy(err)
       THEN /\ outcomes' = Shown("read_failed")
            /\ ticker_pos' = AfterContinue(ticker_pos, Len(ticker_list))
            /\ pc' = "for"
       ELSE /\ outcomes' = outcomes
            /\ ticker_pos' = ticker_pos
            /\ pc' = "price"
    /\ UNCHANGED <<ticker_list, download, err, df_none, period_months, current_price, m2>>
    /\ UNCHANGED <<inputVars, btVars>>

\* lines 203-210: df['Close'].iloc[-1] raises on None and on a frame with no row
Price ==
    /\ pc = "price"
    /\ IF df_none \/ df = <<>>
       THEN /\ outcomes' = Shown("price_error")
            /\ ticker_pos' = AfterContinue(ticker_pos, Len(ticker_list))
            /\ current_price' = current_price
            /\ pc' = "for"
       ELSE /\ outcomes' = outcomes
            /\ ticker_pos' = ticker_pos
            /\ current_price' = Some(df[Len(df)].Close)
            /\ pc' = "call"
    /\ UNCHANGED <<ticker_list, download, err, df_none, period_months, m2>>
    /\ UNCHANGED <<caller, df, ki_pct, strike_pct, trading_days, btVars>>

\* line 212: the call, with line 68
Call ==
    /\ pc = "call"
    /\ trading_days' = TradingDays(period_months)
    /\ bt' = <<>>
    /\ loss_indices' = <<>>
    /\ loop_pos' = 0
    /\ recovery_counts' = <<>>
    /\ stuck_count' = 0
    /\ ret' = RetNone
    /\ pc' = "start"
    /\ UNCHANGED <<caller, df, ki_pct, strike_pct, mainVars>>

\* lines 214-282: the warning of line 215, or the report
AfterBacktest ==
    /\ pc = "returned"
    /\ caller = "main"
    /\ IF ret.none
       THEN /\ outcomes' = Shown("insufficient")
            /\ m2' = m2
       ELSE /\ outcomes' = Shown("report")
            /\ m2' = MetricM2(ret.stats)
    /\ ticker_pos' = AfterContinue(ticker_pos, Len(ticker_list))
    /\ pc' = "for"
    /\ UNCHANGED <<ticker_list, download, err, df_none, period_months, current_price>>
    /\ UNCHANGED <<inputVars, btVars>>

NextMain ==
    \/ Run
    \/ ForTicker
    \/ Fetch
    \/ CheckErr
    \/ Price
    \/ Call
    \/ NextBacktest
    \/ AfterBacktest

InitMain ==
    /\ pc = "run"
    /\ caller = "main"
    /\ df = <<>>
    /\ \E th \in ThresholdSet : ki_pct = th[1] /\ strike_pct = th[2]
    /\ trading_days = 0
    /\ InitBacktestVars
    /\ ticker_list \in {[i \in 1..k |-> i] : k \in 0..MaxTickers}
    /\ ticker_pos = 0
    /\ download = NoDownload
    /\ err = NaN
    /\ df_none = FALSE
    /\ period_months \in MonthsSet
    /\ current_price = NaN
    /\ m2 = NoMetric
    /\ outcomes = <<>>

\* the script runs top to bottom and nothing in it waits: every enabled step is taken
MainSpec == InitMain /\ [][NextMain]_vars /\ WF_vars(NextMain)

----------------------------------------------------------------------------
(* A direct call of run_detailed_backtest on any frame and holding period:  *)
(* dates in any order, closes zero or negative, trading_days <= 0           *)

AnyLen == 3
AnyDates == 1..3
AnyPrices == -1..2
AnyDays == -1..2

AnyFrames ==
    UNION {[1..n -> [Date : AnyDates, Close : AnyPrices]] : n \in 0..AnyLen}

InitAny ==
    /\ pc = "start"
    /\ caller = "direct"
    /\ df \in AnyFrames
    /\ \E th \in ThresholdSet : ki_pct = th[1] /\ strike_pct = th[2]
    /\ trading_days \in AnyDays
    /\ InitBacktestVars
    /\ InitMainIdle

SpecAny == InitAny /\ [][Next]_vars

----------------------------------------------------------------------------
(* Properties *)

Max(a, b) == IF a >= b THEN a ELSE b

\* the table exists: lines 68-85 have run
Built == pc \in {"classify", "recovery", "loop", "returned"}

\* Result has been assigned: lines 87-102 have run
Classified == pc \in {"recovery", "loop", "returned"} /\ bt # <<>>

\* run_detailed_backtest returned a table and statistics
ReturnedStats == pc = "returned" /\ ~ret.none

\* the rows of bt that are LOSS
LossRows == {k \in 1..Len(bt) : bt[k].Result = LOSS}

\* the rows of df after row k's End_Date that close at or above its Strike_Level
Candidates(k) ==
    {j \in 1..Len(df) : df[j].Date > bt[k].End_Date
                        /\ df[j].Close * Scale >= bt[k].Strike_Level}

\* the rows of bt with a Recovery_Days value
RecoveredRows == {k \in 1..Len(bt) : ~IsNaN(bt[k].Recovery_Days)}

RECURSIVE SumOver(_, _)
SumOver(S, f) ==
    IF S = {} THEN 0
    ELSE LET x == CHOOSE y \in S : TRUE IN f[x] + SumOver(S \ {x}, f)

\* C1: every emitted window's Min_Price_During is the minimum close over the
\* indices i..i+h, both endpoints included (the exit day's close is part of it).
C1_MinIncludesExitDay ==
    Built =>
        \A k \in 1..Len(bt) :
            bt[k].Min_Price_During =
                MinOfSet({df[j].Close : j \in bt[k].index..(bt[k].index + trading_days)})

\* C2: a series of n rows and a positive holding period h give exactly
\* max(0, n - h) windows, one per anchor index in ascending order, each with its
\* exit at index i + h; with n <= h the call returns (None, None) and no
\* statistic is computed, so total_samples is never 0 where it divides.
C2_WindowCount ==
    (pc # "start") =>
        /\ Len(bt) = Max(0, Len(df) - trading_days)
        /\ \A k \in 1..Len(bt) :
              /\ bt[k].index = k
              /\ bt[k].Start_Date = df[k].Date
              /\ bt[k].Start_Price = df[k].Close
              /\ bt[k].End_Date = df[k + trading_days].Date
              /\ bt[k].Final_Price = df[k + trading_days].Close
        /\ \A k \in 1..(Len(bt) - 1) : bt[k].Start_Date < bt[k + 1].Start_Date
        /\ (Len(df) <= trading_days) => (pc = "returned" /\ ret.none)
        /\ ReturnedStats =>
              (ret.stats.total_samples > 0
               /\ ret.stats.total_samples = Len(df) - trading_days
               /\ ret.stats.safety_prob.den > 0
               /\ ret.stats.positive_prob.den > 0)

C2_Witness ==
    /\ ReturnedStats
    /\ Len(df) = 4
    /\ trading_days = 2
    /\ Len(bt) = 2

\* C3: with both levels taken from the window's own entry price, Touched_KI
\* holds exactly when Min_Price_During < KI_Level, Result is LOSS exactly when
\* Touched_KI holds and Final_Price < Strike_Level, every other window gets one
\* of the two safe results, and the fallback value is never assigned.
C3_Classification ==
    Classified =>
        \A k \in 1..Len(bt) :
            LET row == bt[k]
                touched == row.Min_Price_During * Scale < row.Start_Price * ki_pct
                below == row.Final_Price * Scale < row.Start_Price * strike_pct
            IN  /\ row.KI_Level = row.Start_Price * ki_pct
                /\ row.Strike_Level = row.Start_Price * strike_pct
                /\ row.Touched_KI = touched
                /\ (row.Result = LOSS) = (touched /\ below)
                /\ (row.Result # LOSS) => row.Result \in {TOUCHED_SAFE, UNTOUCHED_SAFE}
                /\ (row.Result = TOUCHED_SAFE) = (touched /\ ~below)
                /\ row.Result # UNKNOWN

C3_Witness ==
    /\ Classified
    /\ \E k \in 1..Len(bt) : bt[k].Result = LOSS
    /\ \E k \in 1..Len(bt) : bt[k].Result = TOUCHED_SAFE
    /\ \E k \in 1..Len(bt) : bt[k].Result = UNTOUCHED_SAFE

\* C4: over strictly increasing dates, a LOSS window's recovery date is the
\* earliest date strictly after its End_Date whose close is >= its
\* Strike_Level and Recovery_Days is the calendar-day difference; with no such
\* date the window is marked stuck and Recovery_Days stays NaN, never 0.
C4_RecoveryScan ==
    ReturnedStats =>
        \A k \in LossRows :
            IF Candidates(k) # {}
            THEN LET first == MinOfSet({df[j].Date : j \in Candidates(k)})
                 IN  /\ bt[k].Recovery_Days = Some(first - bt[k].End_Date)
                     /\ bt[k].Recovery_Status = StatusDays(first - bt[k].End_Date)
            ELSE /\ bt[k].Recovery_Status = StatusStuck
                 /\ IsNaN(bt[k].Recovery_Days)

C4_Witness ==
    /\ ReturnedStats
    /\ \E k \in LossRows :
          /\ Cardinality(Candidates(k)) >= 2
          /\ ~IsNaN(bt[k].Recovery_Days)
          /\ Val(bt[k].Recovery_Days) >= 3

\* C5: when no LOSS window has recovered, the avg_recovery_days returned is
\* reported as undefined / no data and is never the number 0.
C5_NoRecoveryIsNotZero ==
    (ReturnedStats /\ ret.stats.loss_count > 0 /\ recovery_counts = <<>>) =>
        ret.stats.avg_recovery_days.num # 0

\* C6: every LOSS window is either recovered or stuck and never both:
\* stuck_count plus the number of recovered windows is loss_count, a LOSS window
\* ending on the last date or whose later closes all stay below its
\* Strike_Level is counted in stuck_count, and avg_recovery_days is the mean of
\* the recovered windows' Recovery_Days alone.
C6_RecoveredOrStuck ==
    ReturnedStats =>
        LET stuck == {k \in LossRows : bt[k].Recovery_Status = StatusStuck}
            days == [k \in RecoveredRows |-> Val(bt[k].Recovery_Days)]
        IN  /\ RecoveredRows \subseteq LossRows
            /\ RecoveredRows \cap stuck = {}
            /\ RecoveredRows \cup stuck = LossRows
            /\ ret.stats.loss_count = Cardinality(LossRows)
            /\ ret.stats.stuck_count + Cardinality(RecoveredRows) = ret.stats.loss_count
            /\ stuck = {k \in LossRows : Candidates(k) = {}}
            /\ ret.stats.stuck_count = Cardinality(stuck)
            /\ \A k \in LossRows :
                  bt[k].End_Date = df[Len(df)].Date => k \in stuck
            /\ RecoveredRows # {} =>
                  ret.stats.avg_recovery_days =
                      [num |-> SumOver(RecoveredRows, days),
                       den |-> Cardinality(RecoveredRows)]

C6_Witness ==
    /\ ReturnedStats
    /\ ret.stats.stuck_count >= 1
    /\ Cardinality(RecoveredRows) >= 1
    /\ \E k \in LossRows : Candidates(k) = {} /\ bt[k].End_Date < df[Len(df)].Date

\* C7: a call whose inputs break the input constraints (trading_days <= 0,
\* dates not strictly increasing, a close that is not positive) never returns
\* a window table and statistics.
InvalidInput ==
    \/ trading_days <= 0
    \/ \E i \in 1..Len(df) : df[i].Close <= 0
    \/ \E i \in 1..(Len(df) - 1) : df[i].Date >= df[i + 1].Date

C7_InvalidInputRejected == InvalidInput => ~ReturnedStats

\* C8: whenever statistics are returned, the safe windows are exactly the
\* non-LOSS windows (those that touched KI but closed at or above Strike
\* included): safe_count + loss_count = total_samples, so safety_prob +
\* loss_count / total_samples * 100 = 100, and both probabilities lie in
\* [0, 100].
C8_Probabilities ==
    ReturnedStats =>
        LET st == ret.stats
            safe == {k \in 1..Len(bt) : bt[k].Result \in {TOUCHED_SAFE, UNTOUCHED_SAFE}}
        IN  /\ st.total_samples > 0
            /\ st.safety_prob.den = st.total_samples
            /\ st.safety_prob.num = 100 * Cardinality(safe)
            /\ Cardinality(safe) + st.loss_count = st.total_samples
            /\ st.safety_prob.num + st.loss_count * 100 = 100 * st.safety_prob.den
            /\ 0 <= st.safety_prob.num /\ st.safety_prob.num <= 100 * st.safety_prob.den
            /\ st.positive_prob.den = st.total_samples
            /\ 0 <= st.positive_prob.num /\ st.positive_prob.num <= 100 * st.positive_prob.den

C8_Witness ==
    /\ ReturnedStats
    /\ \E k \in 1..Len(bt) : bt[k].Result = TOUCHED_SAFE
    /\ \E k \in 1..Len(bt) : bt[k].Result = LOSS
    /\ ret.stats.positive_prob.num > 0

\* C9: over strictly increasing dates every recovered LOSS window has
\* Recovery_Days >= 1, so the returned avg_recovery_days is 0 exactly when no
\* LOSS window recovered and is >= 1 otherwise.
C9_RecoveryDaysPositive ==
    /\ Classified /\ pc # "recovery" =>
          \A k \in RecoveredRows : Val(bt[k].Recovery_Days) >= 1
    /\ \A i \in 1..Len(recovery_counts) : recovery_counts[i] >= 1
    /\ ReturnedStats =>
          /\ (ret.stats.avg_recovery_days.num = 0) = (RecoveredRows = {})
          /\ RecoveredRows # {} =>
                ret.stats.avg_recovery_days.num >= ret.stats.avg_recovery_days.den

C9_Witness ==
    /\ ReturnedStats
    /\ \E k \in RecoveredRows : Val(bt[k].Recovery_Days) = 1
    /\ \E k \in RecoveredRows : Val(bt[k].Recovery_Days) > 1

\* C10: the tickers are handled one at a time in input order, each ends in
\* exactly one outcome (an error reported, the insufficient-data warning, or
\* the report), an error or insufficient-data outcome skips only that ticker,
\* and the loop always reaches the end of the list.
OutcomeKinds == {"read_failed", "price_error", "insufficient", "report"}

OneOutcomePerTicker ==
    /\ \A i \in 1..Len(outcomes) :
          outcomes[i].ticker = ticker_list[i] /\ outcomes[i].kind \in OutcomeKinds
    /\ Len(outcomes) <= Len(ticker_list)
    /\ (pc \notin {"run", "done"}) => Len(outcomes) = ticker_pos - 1
    /\ (pc = "done") => Len(outcomes) = Len(ticker_list)

C10_EveryTickerHandled == []OneOutcomePerTicker /\ <>(pc = "done")

C10_Witness ==
    /\ pc = "done"
    /\ Len(outcomes) = 2
    /\ outcomes[1].kind \in {"read_failed", "price_error", "insufficient"}
    /\ outcomes[2].kind = "report"

====
